---- MODULE Spec2Model ----
(***************************************************************************)
(* Model of scripts/reduce-mismatch.py: the delta reducer that shrinks a   *)
(* corpus file to a small reproduction of a nitrocop/rubocop mismatch.     *)
(*                                                                         *)
(* A line of the source file is modelled by its position in the original   *)
(* file (1, 2, ...), so all lines are distinct.  A file's text is the      *)
(* sequence of its lines, each followed by the newline token NL.  The two  *)
(* checkers and the Prism parse check are external processes: what they    *)
(* answer on a file is chosen by the environment (see OracleChoices).     *)
(* The --verbose flag only prints and is left out.                         *)
(*                                                                         *)
(* The module also models bench/corpus/diff_results.py, the script that    *)
(* compares the two tools' JSON results over the corpus (see DiffSpec),    *)
(* bench/corpus/gen_tiers.py (TiersSpec), bench/corpus/update_readme.py    *)
(* (ReadmeSpec) and the result cache of scripts/check-cop.py (CacheSpec).  *)
(***************************************************************************)
EXTENDS Integers, Sequences, FiniteSets, TLC

\* Largest number of lines of the source file.
MaxLines == 5

\* Largest number of lines of the source file in the two-line scenario.
MaxPairLines == 10

\* Largest number of repos with result files, and of files in a repo, in a
\* run of diff_results.py.
MaxRepos == 2
MaxFiles == 2

\* Largest number of cops in by_cop, and largest fp or fn count of a cop, in a
\* run of gen_tiers.py.
MaxCops == 2
MaxCount == 1

\* Largest repo count, and number of distinct top-15 tables, in a run of
\* update_readme.py.
MaxStat == 1

\* Largest number of times the nitrocop binary is built while check-cop.py's
\* cache is in use.
MaxBuilds == 3

\* format_files: the file count is shown in thousands.
FilesUnit == 1000

\* format_match_rate shows tenths of a percent; overall_match_rate is held
\* here in hundredths of a percent (it is rounded to 4 decimals).
RateUnit == 10

\* The newline written after every line by write_candidate.
NL == 0

VARIABLES
    pc,               \* position in main / reduce_blocks / reduce_lines
    env,              \* how the external tools answer: "any", "free", "det" or "pair"
    need,             \* env = "pair": the two lines the subject's report depends on
    mismatch_type,    \* args.type: "fp" or "fn"
    bin_exists,       \* NITROCOP_BIN.exists()
    source_exists,    \* source_path.exists()
    source_lines,     \* source.splitlines() of the corpus file
    lines,            \* the current lines (main's and the phases' `lines`)
    original_count,   \* original_count
    skip_rubocop,     \* skip_rubocop
    n,                \* reduce_blocks: chunk count
    chunk_size,       \* reduce_blocks: chunk_size
    i,                \* loop index of reduce_blocks' for / reduce_lines' while
    reduced,          \* reduce_blocks: reduced
    predicate_calls,  \* the global _predicate_calls
    dir_made,         \* OUTPUT_DIR has been created
    tmp_file,         \* the working file at tmp_path
    out_file,         \* the reduced output file at output_path
    fail_reason,      \* why sys.exit(1) was called ("none" while running)
    memo,             \* env = "det": what the predicate answered on each text so far
    nc_lines,         \* main: nc_lines, the subject's report on the unmodified input
    rc_lines,         \* main: rc_lines, the reference's report on the unmodified input
    init_full,        \* whether the full divergence predicate holds on the unmodified input
    lines_valid,      \* what the parse check answers on the file holding `lines`
    tools_run,        \* an external tool (checker or parse check) has been invoked
    last,             \* the latest is_interesting evaluation
    trials,           \* number of trial candidates the two phases have tested
    run,              \* 1: the session; 2: the reducer run again on its own output
    output1           \* the lines the first run returned

\* diff_results.py
VARIABLES
    dr_pc,               \* position in diff_results.main ("off": not running)
    manifest_ids,        \* manifest_ids
    tc_files,            \* repo ids with a JSON file in --nitrocop-dir
    rc_files,            \* repo ids with a JSON file in --rubocop-dir
    all_ids,             \* all_ids
    repo_idx,            \* position of `for repo_id in all_ids` (1-based)
    repo_results,        \* repo_results
    total_matches,       \* total_matches
    total_fp,            \* total_fp
    total_fn,            \* total_fn
    repos_perfect,       \* repos_perfect
    repos_error,         \* repos_error
    total_files,         \* total_files
    total_files_dropped, \* total_files_dropped
    warning_repos,       \* the repos of warning_repos
    err_repos_bound,     \* the local err_repos has been assigned
    output_json,         \* the file at --output-json
    output_md,           \* the file at --output-md has been written
    exit_status,         \* the process's exit status (-1 while running)
    in_both              \* offenses both tools' JSON hold, over the compared repos

reducer_vars ==
    << pc, env, need, mismatch_type, bin_exists, source_exists, source_lines, lines,
       original_count, skip_rubocop, n, chunk_size, i, reduced, predicate_calls,
       dir_made, tmp_file, out_file, fail_reason, memo, nc_lines, rc_lines,
       init_full, lines_valid, tools_run, last, trials, run, output1 >>

\* gen_tiers.py
VARIABLES
    gt_pc,               \* position in gen_tiers.main ("off": not running)
    by_cop,              \* by_cop, the list read from --input
    tiers_dry_run,       \* args.dry_run
    entry_idx,           \* position of `for entry in by_cop` (1-based)
    stable_cops,         \* stable_cops
    preview_cops,        \* preview_cops
    tiers_stdout,        \* the tiers object printed on stdout
    tiers_file           \* the tiers object written to --output

\* update_readme.py
VARIABLES
    rm_pc,               \* position in update_readme.main ("off": not running)
    readme_file,         \* the file at --readme
    readme_dry_run,      \* args.dry_run
    corpus_summary,      \* data["summary"] and the table built from data["by_repo"]
    readme_text,         \* readme_text
    updated,             \* updated
    readme_written       \* args.readme.write_text has been called

\* check-cop.py's result cache
VARIABLES
    cc_pc,               \* "on" while the cache functions are in use, else "off"
    nitrocop_stat,       \* NITROCOP_BIN.stat(): st_mtime_ns and st_size
    cache_file,          \* the content of .check-cop-cache/results.json
    lookup,              \* the latest get_cached_results call and what it returned
    saved                \* per cop, the result last saved since the binary was built

diff_vars ==
    << dr_pc, manifest_ids, tc_files, rc_files, all_ids, repo_idx, repo_results,
       total_matches, total_fp, total_fn, repos_perfect, repos_error, total_files,
       total_files_dropped, warning_repos, err_repos_bound, output_json, output_md,
       exit_status, in_both >>

tiers_vars ==
    << gt_pc, by_cop, tiers_dry_run, entry_idx, stable_cops, preview_cops,
       tiers_stdout, tiers_file >>

readme_vars ==
    << rm_pc, readme_file, readme_dry_run, corpus_summary, readme_text, updated,
       readme_written >>

cache_vars == << cc_pc, nitrocop_stat, cache_file, lookup, saved >>

script_vars == << diff_vars, tiers_vars, readme_vars, cache_vars >>

vars == << reducer_vars, script_vars >>

Max(a, b) == IF a >= b THEN a ELSE b
Min(a, b) == IF a <= b THEN a ELSE b

----------------------------------------------------------------------------
(* External process results.                                               *)

\* Line numbers a checker's JSON may list for the cop.
ReportLines == {1}

TIMEOUT == [kind |-> "timeout", lines |-> {}]
BADEXIT == [kind |-> "badexit", lines |-> {}]
GARBAGE == [kind |-> "garbage", lines |-> {}]
UNRUN   == [kind |-> "unrun", lines |-> {}]
JsonResults == { [kind |-> "json", lines |-> s] : s \in SUBSET ReportLines }

\* subprocess.run of a checker: timeout, returncode not in (0, 1), stdout that
\* is not JSON, or JSON whose offenses for the cop are on `lines`.
ProcResults == {TIMEOUT, BADEXIT, GARBAGE} \cup JsonResults

\* subprocess.run of the Prism check: returncode 0, returncode 1, or timeout.
ParseResults == {"ok", "errors", "timeout"}

run_nitrocop(res) ==
    IF res.kind = "timeout" THEN {}
    ELSE IF res.kind = "badexit" THEN {}
    ELSE IF res.kind = "garbage" THEN {}
    ELSE res.lines

run_rubocop(res) ==
    IF res.kind = "timeout" THEN {}
    ELSE IF res.kind = "badexit" THEN {}
    ELSE IF res.kind = "garbage" THEN {}
    ELSE res.lines

is_parseable(res) ==
    IF res = "timeout" THEN FALSE ELSE res = "ok"

\* is_interesting with the counter bumped after the parse check instead of
\* before it: an unparseable candidate is not counted.
is_interesting_count_late(calls, w, mtype, skip) ==
    LET c1 == calls + 1
        nc == run_nitrocop(w.nc)
        rc == run_rubocop(w.rc)
    IN  IF ~is_parseable(w.parse)
        THEN [calls |-> calls, result |-> FALSE, parse |-> w.parse, nc |-> UNRUN,
              rc |-> UNRUN]
        ELSE IF mtype = "fp"
        THEN IF nc = {}
             THEN [calls |-> c1, result |-> FALSE, parse |-> w.parse, nc |-> w.nc,
                   rc |-> UNRUN]
             ELSE IF skip
             THEN [calls |-> c1, result |-> TRUE, parse |-> w.parse, nc |-> w.nc,
                   rc |-> UNRUN]
             ELSE [calls |-> c1, result |-> (Cardinality(rc) = 0), parse |-> w.parse,
                   nc |-> w.nc, rc |-> w.rc]
        ELSE IF nc # {}
             THEN [calls |-> c1, result |-> FALSE, parse |-> w.parse, nc |-> w.nc,
                   rc |-> UNRUN]
             ELSE [calls |-> c1, result |-> (Cardinality(rc) > 0), parse |-> w.parse,
                   nc |-> w.nc, rc |-> w.rc]

\* is_interesting with the subject checker run before the parse check: an
\* unparseable candidate is still rejected, after nitrocop has run on it.
is_interesting_parse_after(calls, w, mtype, skip) ==
    LET c1 == calls + 1
        nc == run_nitrocop(w.nc)
        rc == run_rubocop(w.rc)
    IN  IF ~is_parseable(w.parse)
        THEN [calls |-> c1, result |-> FALSE, parse |-> w.parse, nc |-> w.nc,
              rc |-> UNRUN]
        ELSE IF mtype = "fp"
        THEN IF nc = {}
             THEN [calls |-> c1, result |-> FALSE, parse |-> w.parse, nc |-> w.nc,
                   rc |-> UNRUN]
             ELSE IF skip
             THEN [calls |-> c1, result |-> TRUE, parse |-> w.parse, nc |-> w.nc,
                   rc |-> UNRUN]
             ELSE [calls |-> c1, result |-> (Cardinality(rc) = 0), parse |-> w.parse,
                   nc |-> w.nc, rc |-> w.rc]
        ELSE IF nc # {}
             THEN [calls |-> c1, result |-> FALSE, parse |-> w.parse, nc |-> w.nc,
                   rc |-> UNRUN]
             ELSE [calls |-> c1, result |-> (Cardinality(rc) > 0), parse |-> w.parse,
                   nc |-> w.nc, rc |-> w.rc]

\* is_interesting without the fn branch's `if nc_lines: return False`: for a
\* false negative only rubocop's report decides.
is_interesting_fn_reference_only(calls, w, mtype, skip) ==
    LET c1 == calls + 1
        nc == run_nitrocop(w.nc)
        rc == run_rubocop(w.rc)
    IN  IF ~is_parseable(w.parse)
        THEN [calls |-> c1, result |-> FALSE, parse |-> w.parse, nc |-> UNRUN,
              rc |-> UNRUN]
        ELSE IF mtype = "fp"
        THEN IF nc = {}
             THEN [calls |-> c1, result |-> FALSE, parse |-> w.parse, nc |-> w.nc,
                   rc |-> UNRUN]
             ELSE IF skip
             THEN [calls |-> c1, result |-> TRUE, parse |-> w.parse, nc |-> w.nc,
                   rc |-> UNRUN]
             ELSE [calls |-> c1, result |-> (Cardinality(rc) = 0), parse |-> w.parse,
                   nc |-> w.nc, rc |-> w.rc]
        ELSE [calls |-> c1, result |-> (Cardinality(rc) > 0), parse |-> w.parse,
              nc |-> w.nc, rc |-> w.rc]

\* is_interesting without its `if not is_parseable(tmp_path): return False`.
is_interesting_no_parse_check(calls, w, mtype, skip) ==
    LET c1 == calls + 1
        nc == run_nitrocop(w.nc)
        rc == run_rubocop(w.rc)
    IN  IF mtype = "fp"
        THEN IF nc = {}
             THEN [calls |-> c1, result |-> FALSE, parse |-> w.parse, nc |-> w.nc,
                   rc |-> UNRUN]
             ELSE IF skip
             THEN [calls |-> c1, result |-> TRUE, parse |-> w.parse, nc |-> w.nc,
                   rc |-> UNRUN]
             ELSE [calls |-> c1, result |-> (Cardinality(rc) = 0), parse |-> w.parse,
                   nc |-> w.nc, rc |-> w.rc]
        ELSE IF nc # {}
             THEN [calls |-> c1, result |-> FALSE, parse |-> w.parse, nc |-> w.nc,
                   rc |-> UNRUN]
             ELSE [calls |-> c1, result |-> (Cardinality(rc) > 0), parse |-> w.parse,
                   nc |-> w.nc, rc |-> w.rc]

\* One evaluation of is_interesting given what the three tools answer (w) on the
\* file: the new counter, the verdict, and the tool results actually obtained.
is_interesting(calls, w, mtype, skip) ==
    LET c1 == calls + 1
        nc == run_nitrocop(w.nc)
        rc == run_rubocop(w.rc)
    IN  IF ~is_parseable(w.parse)
        THEN [calls |-> c1, result |-> FALSE, parse |-> w.parse, nc |-> UNRUN,
              rc |-> UNRUN]
        ELSE IF mtype = "fp"
        THEN IF nc = {}
             THEN [calls |-> c1, result |-> FALSE, parse |-> w.parse, nc |-> w.nc,
                   rc |-> UNRUN]
             ELSE IF skip
             THEN [calls |-> c1, result |-> TRUE, parse |-> w.parse, nc |-> w.nc,
                   rc |-> UNRUN]
             ELSE [calls |-> c1, result |-> (Cardinality(rc) = 0), parse |-> w.parse,
                   nc |-> w.nc, rc |-> w.rc]
        ELSE IF nc # {}
             THEN [calls |-> c1, result |-> FALSE, parse |-> w.parse, nc |-> w.nc,
                   rc |-> UNRUN]
             ELSE [calls |-> c1, result |-> (Cardinality(rc) > 0), parse |-> w.parse,
                   nc |-> w.nc, rc |-> w.rc]

\* write_candidate with its conditional inverted: nothing is written for a
\* non-empty list.
write_candidate_inverted(ls) ==
    IF ls = << >> THEN << NL >> ELSE << >>

\* write_candidate: the text written for a list of lines.
RECURSIVE write_candidate(_)
write_candidate(ls) ==
    IF ls = << >> THEN << >>
    ELSE << Head(ls), NL >> \o write_candidate(Tail(ls))

FileOf(ls) == [exists |-> TRUE, text |-> write_candidate(ls)]
ABSENT == [exists |-> FALSE, text |-> << >>]

\* Python slice s[a:b] (0-based, end exclusive, clamped).
Slice(s, a, b) == SubSeq(s, Min(a, Len(s)) + 1, Min(b, Len(s)))

----------------------------------------------------------------------------
(* The environment: what the tools answer on a file.                       *)

\* The divergence the session is about, on the tools' reports for one file.
FullPredicate(w, mtype) ==
    /\ is_parseable(w.parse)
    /\ mtype = "fp" => (run_nitrocop(w.nc) # {} /\ run_rubocop(w.rc) = {})
    /\ mtype = "fn" => (run_nitrocop(w.nc) = {} /\ run_rubocop(w.rc) # {})

Worlds == [parse : ParseResults, nc : ProcResults, rc : ProcResults]

\* Tools that always run to completion and print well-formed output.
SoundWorlds == [parse : {"ok", "errors"}, nc : JsonResults, rc : JsonResults]

\* What a world makes of a file: the verdict of is_interesting and the truth
\* of the full divergence predicate.
Verdict(w, mtype, skip) ==
    [interesting |-> is_interesting(0, w, mtype, skip).result,
     full |-> FullPredicate(w, mtype)]

\* The answers the environment may give on the file with this text.
\*   "any":  every call answers arbitrarily, failures included;
\*   "free": every call answers arbitrarily, the tools never fail (a failed
\*           call is read as an empty report, so the verdicts are the same);
\*   "det":  the tools never fail and the verdict on a text never changes;
\*   "pair": every file parses, the reference never reports, and the subject
\*           reports exactly when the two lines of `need` are both in the file.
OracleChoices(text, mtype, skip) ==
    IF env = "any" THEN Worlds
    ELSE IF env = "free" THEN SoundWorlds
    ELSE IF env = "pair"
    THEN { [parse |-> "ok",
            nc |-> [kind |-> "json",
                    lines |-> IF \A x \in need : \E j \in DOMAIN text : text[j] = x
                              THEN ReportLines ELSE {}],
            rc |-> [kind |-> "json", lines |-> {}]] }
    ELSE IF text \in DOMAIN memo
         THEN { w \in SoundWorlds : Verdict(w, mtype, skip) = memo[text] }
         ELSE SoundWorlds

Remember(text, w, mtype, skip) ==
    IF env # "det" \/ text \in DOMAIN memo THEN memo
    ELSE (text :> Verdict(w, mtype, skip)) @@ memo

NoEval == [phase |-> 0, text |-> << >>, result |-> FALSE, parse |-> "unrun",
           nc |-> UNRUN, rc |-> UNRUN, full |-> FALSE]

----------------------------------------------------------------------------
NoSummary ==
    [total_repos |-> 0, repos_perfect |-> 0, repos_error |-> 0,
     repos_with_rubocop_warnings |-> 0, total_offenses_compared |-> 0,
     matches |-> 0, fp |-> 0, fn |-> 0, total_files_inspected |-> 0,
     rubocop_files_dropped |-> 0]

NoJson == [exists |-> FALSE, summary |-> NoSummary]

\* diff_results.main's locals before its loop, and no output yet.
DiffLocals ==
    /\ all_ids = << >>
    /\ repo_idx = 1
    /\ repo_results = << >>
    /\ total_matches = 0
    /\ total_fp = 0
    /\ total_fn = 0
    /\ repos_perfect = 0
    /\ repos_error = 0
    /\ total_files = 0
    /\ total_files_dropped = 0
    /\ warning_repos = {}
    /\ err_repos_bound = FALSE
    /\ output_json = NoJson
    /\ output_md = FALSE
    /\ exit_status = -1
    /\ in_both = 0

\* diff_results.py is not run.
DiffOff ==
    /\ dr_pc = "off"
    /\ manifest_ids = {}
    /\ tc_files = {}
    /\ rc_files = {}
    /\ DiffLocals

\* No tiers object printed or written yet.
NoTiers == [written |-> FALSE, default_tier |-> "", overrides |-> << >>]

\* gen_tiers.main's locals before its loop, and no output yet.
TiersLocals ==
    /\ entry_idx = 1
    /\ stable_cops = << >>
    /\ preview_cops = << >>
    /\ tiers_stdout = NoTiers
    /\ tiers_file = NoTiers

\* gen_tiers.py is not run.
TiersOff ==
    /\ gt_pc = "off"
    /\ by_cop = << >>
    /\ tiers_dry_run = FALSE
    /\ TiersLocals

\* A README with none of the passages update_readme looks for.
PlainReadme == [rate |-> -1, repos |-> -1, files |-> -1, table |-> -1]

\* update_readme.py is not run.
ReadmeOff ==
    /\ rm_pc = "off"
    /\ readme_file = PlainReadme
    /\ readme_dry_run = FALSE
    /\ corpus_summary = [rate |-> 0, repos |-> 0, files |-> 0, table |-> 0]
    /\ readme_text = PlainReadme
    /\ updated = PlainReadme
    /\ readme_written = FALSE

NoLookup == [cop |-> 0, found |-> FALSE, result |-> 0]

\* check-cop.py's cache functions are not in use.
CacheOff ==
    /\ cc_pc = "off"
    /\ nitrocop_stat = [st_mtime_ns |-> 0, st_size |-> 0]
    /\ cache_file = << >>
    /\ lookup = NoLookup
    /\ saved = << >>

\* None of the other scripts is run.
ScriptOff ==
    /\ DiffOff
    /\ TiersOff
    /\ ReadmeOff
    /\ CacheOff

\* The state before main runs, whatever the arguments and the corpus file.
InitState ==
    /\ pc = "start"
    /\ bin_exists \in BOOLEAN
    /\ source_exists \in BOOLEAN
    /\ lines = << >>
    /\ original_count = 0
    /\ skip_rubocop = FALSE
    /\ n = 0
    /\ chunk_size = 0
    /\ i = 0
    /\ reduced = FALSE
    /\ predicate_calls = 0
    /\ dir_made = FALSE
    /\ tmp_file = ABSENT
    /\ out_file = ABSENT
    /\ fail_reason = "none"
    /\ memo = << >>
    /\ nc_lines = {}
    /\ rc_lines = {}
    /\ init_full = FALSE
    /\ lines_valid = FALSE
    /\ tools_run = FALSE
    /\ last = NoEval
    /\ trials = 0
    /\ run = 1
    /\ output1 = << >>
    /\ ScriptOff

InitWith(envs) ==
    /\ InitState
    /\ env \in envs
    /\ need = {}
    /\ mismatch_type \in {"fp", "fn"}
    /\ \E k \in 0..MaxLines : source_lines = [j \in 1..k |-> j]

Init == InitWith({"any", "det"})

----------------------------------------------------------------------------
(* main, up to the start of Phase 1.                                       *)

\* The prerequisite checks without the test of the nitrocop binary.
PrereqFailure_source_only(bin, src) ==
    IF ~src THEN "no_source" ELSE "none"

\* main's two prerequisite checks, in order: which one calls sys.exit(1).
PrereqFailure(bin, src) ==
    IF ~bin THEN "no_binary"
    ELSE IF ~src THEN "no_source"
    ELSE "none"

\* main's prerequisite checks, loading of the source, creation of OUTPUT_DIR
\* and the first write of the working file.
Load ==
    /\ pc = "start"
    /\ IF PrereqFailure(bin_exists, source_exists) # "none"
       THEN /\ pc' = "failed"
            /\ fail_reason' = PrereqFailure(bin_exists, source_exists)
            /\ UNCHANGED << lines, original_count, dir_made, tmp_file >>
       ELSE /\ lines' = source_lines
            /\ original_count' = Len(source_lines)
            /\ dir_made' = TRUE
            /\ tmp_file' = FileOf(source_lines)
            /\ pc' = "verify"
            /\ UNCHANGED fail_reason
    /\ UNCHANGED << env, need, mismatch_type, bin_exists, source_exists, source_lines,
                    skip_rubocop, n, chunk_size, i, reduced, predicate_calls,
                    out_file, memo, nc_lines, rc_lines,
                    init_full, lines_valid, tools_run, last, trials, run, output1 >>
    /\ UNCHANGED script_vars

\* The initial check made on the subject's report whatever the mismatch type.
MismatchExists_subject_only(mtype, ncl, rcl) == ncl # {}

\* Whether main goes on after its initial run of the two checkers.
MismatchExists(mtype, ncl, rcl) ==
    IF mtype = "fp" THEN ncl # {} ELSE rcl # {}

\* skip_rubocop selected with the test on rubocop's initial report inverted.
SelectSkip_reference_reported(mtype, rcl) ==
    IF mtype = "fp" THEN Cardinality(rcl) > 0 ELSE FALSE

\* The skip_rubocop main selects from the initial reports.
SelectSkip(mtype, rcl) ==
    IF mtype = "fp" THEN Cardinality(rcl) = 0 ELSE FALSE

\* The initial verification made through is_interesting, which counts it.
VerifyCalls_counted(calls) == calls + 1

\* The counter after main's initial verification, which calls run_nitrocop and
\* run_rubocop directly.
VerifyCalls(calls) == calls

\* main's initial verification: both checkers run once on the working file.
Verify ==
    /\ pc = "verify"
    /\ \E w \in OracleChoices(tmp_file.text, mismatch_type, FALSE) :
         LET ncl == run_nitrocop(w.nc)
             rcl == run_rubocop(w.rc)
             skip == SelectSkip(mismatch_type, rcl)
         IN  /\ nc_lines' = ncl
             /\ rc_lines' = rcl
             /\ init_full' = FullPredicate(w, mismatch_type)
             /\ lines_valid' = is_parseable(w.parse)
             /\ tools_run' = TRUE
             /\ predicate_calls' = VerifyCalls(predicate_calls)
             /\ IF MismatchExists(mismatch_type, ncl, rcl)
                THEN /\ skip_rubocop' = skip
                     /\ memo' = Remember(tmp_file.text, w, mismatch_type, skip)
                     /\ n' = 2
                     /\ pc' = "p1_while"
                     /\ UNCHANGED fail_reason
                ELSE /\ pc' = "failed"
                     /\ fail_reason' = "no_mismatch"
                     /\ UNCHANGED << skip_rubocop, memo, n >>
    /\ UNCHANGED << env, need, mismatch_type, bin_exists, source_exists, source_lines, lines,
                    original_count, chunk_size, i, reduced, dir_made, tmp_file,
                    out_file, last, trials, run, output1 >>
    /\ UNCHANGED script_vars

----------------------------------------------------------------------------
(* reduce_blocks.                                                          *)

\* Chunk i of n (0-based): the half-open index range [start, end).
ChunkStart(k, csize) == k * csize
ChunkEnd_no_remainder(k, cnt, csize, len) == k * csize + csize
ChunkEnd(k, cnt, csize, len) == IF k < cnt - 1 THEN k * csize + csize ELSE len

\* The two kept parts joined in the wrong order: lines[end:] + lines[:start].
RemoveChunk_swapped(ls, start, end) == Slice(ls, end, Len(ls)) \o Slice(ls, 0, start)

\* lines[:start] + lines[end:]
RemoveChunk(ls, start, end) == Slice(ls, 0, start) \o Slice(ls, end, Len(ls))

\* The single-line candidate built as lines[:i] + lines[i:], which drops nothing.
RemoveLine_keeps_line(ls, k) == Slice(ls, 0, k) \o Slice(ls, k, Len(ls))

\* lines[:i] + lines[i + 1:]
RemoveLine(ls, k) == Slice(ls, 0, k) \o Slice(ls, k + 1, Len(ls))

\* The empty-candidate guard left out.
IsEmptyCandidate_never(cand) == FALSE

\* The guard inverted: `if candidate: continue`.
IsEmptyCandidate_inverted(cand) == cand # << >>

\* `if not candidate: continue`
IsEmptyCandidate(cand) == cand = << >>

\* n left as it is after a successful trial.
ResetChunkCount_keep(cnt) == cnt

\* n after a successful trial.
ResetChunkCount(cnt) == Max(2, cnt - 1)

\* n left as it is after a scan without success.
NextChunkCount_stuck(cnt, red) == cnt

\* n after a scan: doubled unless the scan reduced the file.
NextChunkCount(cnt, red) == IF ~red THEN cnt * 2 ELSE cnt

\* The while test with < for <=.
ScanAgain_strict(cnt, len) == cnt < len

\* The while test letting n run one past the line count.
ScanAgain_past_length(cnt, len) == cnt <= len + 1

\* `while n <= len(lines)`
ScanAgain(cnt, len) == cnt <= len

\* The evaluation record kept in `last`: what is_interesting returned and
\* obtained from the tools, and (full) whether the reports the two checkers give
\* on the candidate, run or not, make the divergence.
EvalRecord(phase, text, ev, full) ==
    [phase |-> phase, text |-> text, result |-> ev.result, parse |-> ev.parse,
     nc |-> ev.nc, rc |-> ev.rc, full |-> full]

\* `while n <= len(lines)`: start a scan, or return lines to main, which calls
\* reduce_lines (i = len(lines) - 1).
P1While ==
    /\ pc = "p1_while"
    /\ IF ScanAgain(n, Len(lines))
       THEN /\ chunk_size' = Max(1, Len(lines) \div n)
            /\ reduced' = FALSE
            /\ i' = 0
            /\ pc' = "p1_for"
       ELSE /\ i' = Len(lines) - 1
            /\ pc' = "p2_while"
            /\ UNCHANGED << chunk_size, reduced >>
    /\ UNCHANGED << env, need, mismatch_type, bin_exists, source_exists, source_lines, lines,
                    original_count, skip_rubocop, n, predicate_calls, dir_made,
                    tmp_file, out_file, fail_reason, memo, nc_lines, rc_lines,
                    init_full, lines_valid, tools_run, last, trials,
                    run, output1 >>
    /\ UNCHANGED script_vars

\* One iteration of `for i in range(n)`.
P1Trial ==
    /\ pc = "p1_for"
    /\ i < n
    /\ LET start == ChunkStart(i, chunk_size)
           end == ChunkEnd(i, n, chunk_size, Len(lines))
           candidate == RemoveChunk(lines, start, end)
           text == write_candidate(candidate)
       IN  IF IsEmptyCandidate(candidate)
           THEN /\ i' = i + 1
                /\ UNCHANGED << pc, lines, reduced, n, predicate_calls, tmp_file, memo,
                                last, trials, lines_valid, tools_run >>
           ELSE \E w \in OracleChoices(text, mismatch_type, skip_rubocop) :
                  LET ev == is_interesting(predicate_calls, w, mismatch_type, skip_rubocop)
                  IN  /\ tmp_file' = FileOf(candidate)
                      /\ predicate_calls' = ev.calls
                      /\ trials' = trials + 1
                      /\ memo' = Remember(text, w, mismatch_type, skip_rubocop)
                      /\ last' = EvalRecord(1, text, ev, FullPredicate(w, mismatch_type))
                      /\ tools_run' = TRUE
                      /\ IF ev.result
                         THEN /\ lines' = candidate
                              /\ lines_valid' = is_parseable(w.parse)
                              /\ reduced' = TRUE
                              /\ n' = ResetChunkCount(n)
                              /\ pc' = "p1_after"
                              /\ UNCHANGED i
                         ELSE /\ i' = i + 1
                              /\ UNCHANGED << pc, lines, reduced, n, lines_valid >>
    /\ UNCHANGED << env, need, mismatch_type, bin_exists, source_exists, source_lines,
                    original_count, skip_rubocop, chunk_size, dir_made, out_file,
                    fail_reason, nc_lines, rc_lines, init_full, run, output1 >>
    /\ UNCHANGED script_vars

\* The for loop ran through all n chunks without a break.
P1ForDone ==
    /\ pc = "p1_for"
    /\ i >= n
    /\ pc' = "p1_after"
    /\ UNCHANGED << env, need, mismatch_type, bin_exists, source_exists, source_lines, lines,
                    original_count, skip_rubocop, n, chunk_size, i, reduced,
                    predicate_calls, dir_made, tmp_file, out_file, fail_reason, memo,
                    nc_lines, rc_lines,
                    init_full, lines_valid, tools_run, last, trials, run, output1 >>
    /\ UNCHANGED script_vars

\* `if not reduced: n *= 2`, then back to the while test.
P1After ==
    /\ pc = "p1_after"
    /\ n' = NextChunkCount(n, reduced)
    /\ pc' = "p1_while"
    /\ UNCHANGED << env, need, mismatch_type, bin_exists, source_exists, source_lines, lines,
                    original_count, skip_rubocop, chunk_size, i, reduced,
                    predicate_calls, dir_made, tmp_file, out_file, fail_reason, memo,
                    nc_lines, rc_lines,
                    init_full, lines_valid, tools_run, last, trials, run, output1 >>
    /\ UNCHANGED script_vars

----------------------------------------------------------------------------
(* reduce_lines.                                                           *)

\* The candidate taken whatever is_interesting returned.
AdoptIf_always(result, cand, ls) == cand

\* `if is_interesting(...): lines = candidate`
AdoptIf(result, cand, ls) == IF result THEN cand ELSE ls

\* The index left on the same position after an accepted deletion.
NextLineIndex_stay_on_accept(k, accepted) == IF accepted THEN k ELSE k - 1

\* `i -= 1`, whether or not the deletion was accepted.
NextLineIndex(k, accepted) == k - 1

\* One iteration of `while i >= 0`.
P2Trial ==
    /\ pc = "p2_while"
    /\ i >= 0
    /\ LET candidate == RemoveLine(lines, i)
           text == write_candidate(candidate)
       IN  IF IsEmptyCandidate(candidate)
           THEN /\ i' = i - 1
                /\ UNCHANGED << lines, predicate_calls, tmp_file, memo, last, trials,
                                lines_valid, tools_run >>
           ELSE \E w \in OracleChoices(text, mismatch_type, skip_rubocop) :
                  LET ev == is_interesting(predicate_calls, w, mismatch_type, skip_rubocop)
                  IN  /\ tmp_file' = FileOf(candidate)
                      /\ predicate_calls' = ev.calls
                      /\ trials' = trials + 1
                      /\ memo' = Remember(text, w, mismatch_type, skip_rubocop)
                      /\ last' = EvalRecord(2, text, ev, FullPredicate(w, mismatch_type))
                      /\ tools_run' = TRUE
                      /\ lines' = AdoptIf(ev.result, candidate, lines)
                      /\ lines_valid' = IF ev.result THEN is_parseable(w.parse)
                                        ELSE lines_valid
                      /\ i' = NextLineIndex(i, ev.result)
    /\ UNCHANGED << pc, env, need, mismatch_type, bin_exists, source_exists, source_lines,
                    original_count, skip_rubocop, n, chunk_size, reduced, dir_made,
                    out_file, fail_reason, nc_lines, rc_lines, init_full, run, output1 >>
    /\ UNCHANGED script_vars

\* The while loop ends; reduce_lines returns lines to main.
P2Exit ==
    /\ pc = "p2_while"
    /\ i < 0
    /\ pc' = "emit"
    /\ UNCHANGED << env, need, mismatch_type, bin_exists, source_exists, source_lines, lines,
                    original_count, skip_rubocop, n, chunk_size, i, reduced,
                    predicate_calls, dir_made, tmp_file, out_file, fail_reason, memo,
                    nc_lines, rc_lines,
                    init_full, lines_valid, tools_run, last, trials, run, output1 >>
    /\ UNCHANGED script_vars

\* The working file left as the last trial wrote it.
FinalWorkingFile_untouched(ls, tmp) == tmp

\* `write_candidate(tmp_path, final_lines)`: the working file after main's last
\* write.
FinalWorkingFile(ls, tmp) == FileOf(ls)

\* main writes the final result to output_path and to tmp_path.
Emit ==
    /\ pc = "emit"
    /\ out_file' = FileOf(lines)
    /\ tmp_file' = FinalWorkingFile(lines, tmp_file)
    /\ pc' = "done"
    /\ UNCHANGED << env, need, mismatch_type, bin_exists, source_exists, source_lines, lines,
                    original_count, skip_rubocop, n, chunk_size, i, reduced,
                    predicate_calls, dir_made, fail_reason, memo, nc_lines, rc_lines,
                    init_full, lines_valid, tools_run, last,
                    trials, run, output1 >>
    /\ UNCHANGED script_vars

\* The two phases applied once more, to the lines the first run returned, with
\* the same predicate (same mismatch type, same skip_rubocop, same oracles).
Rerun ==
    /\ pc = "done"
    /\ run = 1
    /\ run' = 2
    /\ output1' = lines
    /\ n' = 2
    /\ last' = NoEval
    /\ pc' = "p1_while"
    /\ UNCHANGED << env, need, mismatch_type, bin_exists, source_exists, source_lines, lines,
                    original_count, skip_rubocop, chunk_size, i, reduced,
                    predicate_calls, dir_made, tmp_file, out_file, fail_reason, memo,
                    nc_lines, rc_lines, init_full, lines_valid, tools_run, trials >>
    /\ UNCHANGED script_vars

Next ==
    \/ Load
    \/ Verify
    \/ P1While
    \/ P1Trial
    \/ P1ForDone
    \/ P1After
    \/ P2Trial
    \/ P2Exit
    \/ Emit

Spec == Init /\ [][Next]_vars

\* The session followed by a second run of the reducer on its own output.
NextRerun == Next \/ Rerun

InitDet == InitWith({"det"})

SpecRerun == InitDet /\ [][NextRerun]_vars

InitFree == InitWith({"free"})

\* The two-line scenario: a false positive whose report needs two of the
\* file's lines, any two, in a file of up to MaxPairLines lines.
InitPair ==
    /\ InitState
    /\ env = "pair"
    /\ mismatch_type = "fp"
    /\ \E k \in 2..MaxPairLines :
         /\ source_lines = [j \in 1..k |-> j]
         /\ \E a, b \in 1..k : a < b /\ need = {a, b}

PairSpec == InitPair /\ [][Next]_vars

\* main is one sequential process: whenever a step is possible it is taken.
\* The oracles answer arbitrarily at every call, which covers every predicate.
FairSpec == InitFree /\ [][Next]_vars /\ WF_vars(Next)

----------------------------------------------------------------------------
(* bench/corpus/diff_results.py.                                           *)
(*                                                                         *)
(* An offense (filepath, line, cop_name) is modelled by its file: one line *)
(* and one cop per file.  The optional --cop-list filter is not given.     *)
(* The per-cop tables and the match rates are left out; the summary's      *)
(* counts are kept.                                                        *)

RepoIds == 1..MaxRepos
Files == 1..MaxFiles

\* What a <repo>.json in --nitrocop-dir may hold: nothing json.loads accepts, or
\* {"offenses": [...]}.
NitrocopDocs ==
    {[kind |-> "crashed", offenses |-> {}]}
        \cup { [kind |-> "ok", offenses |-> o] : o \in SUBSET Files }

\* What a <repo>.json in --rubocop-dir may hold: nothing json.loads accepts, or
\* {"files": [...], "summary": {...}} listing some files, some of them with an
\* offense, and a target_file_count that is inspected_file_count plus `lost`.
RubocopDocs ==
    {[kind |-> "crashed", listed |-> {}, offenses |-> {}, lost |-> 0]}
        \cup UNION { { [kind |-> "ok", listed |-> l, offenses |-> o, lost |-> d] :
                          o \in SUBSET l, d \in {0, 1} } : l \in SUBSET Files }

parse_nitrocop_json(doc) ==
    IF doc.kind # "ok" THEN [ok |-> FALSE, offenses |-> {}]
    ELSE [ok |-> TRUE, offenses |-> doc.offenses]

parse_rubocop_json(doc) ==
    IF doc.kind # "ok"
    THEN [ok |-> FALSE, offenses |-> {}, inspected_files |-> {}, target |-> 0,
          inspected |-> 0]
    ELSE LET zero_offense_files == doc.listed \ doc.offenses
             inspected == Cardinality(doc.listed)
             target == inspected + doc.lost
         IN  [ok |-> TRUE,
              offenses |-> doc.offenses,
              inspected_files |->
                  IF target > 0 /\ inspected < target /\ zero_offense_files # {}
                  THEN doc.listed \ zero_offense_files ELSE doc.listed,
              target |-> target,
              inspected |-> inspected]

\* sorted(...) of a set of repo ids.
RECURSIVE SortedSeq(_)
SortedSeq(S) ==
    IF S = {} THEN << >>
    ELSE LET m == CHOOSE x \in S : \A y \in S : x <= y
         IN  << m >> \o SortedSeq(S \ {m})

\* The entry appended to repo_results for a repo that is not compared.
ErrorResult(repo_id, status) ==
    [repo |-> repo_id, status |-> status, matches |-> 0, fp |-> 0, fn |-> 0]

\* reduce-mismatch.py is not run.
ReducerOff ==
    /\ pc = "off"
    /\ env = "free"
    /\ need = {}
    /\ mismatch_type = "fp"
    /\ bin_exists = FALSE
    /\ source_exists = FALSE
    /\ source_lines = << >>
    /\ lines = << >>
    /\ original_count = 0
    /\ skip_rubocop = FALSE
    /\ n = 0
    /\ chunk_size = 0
    /\ i = 0
    /\ reduced = FALSE
    /\ predicate_calls = 0
    /\ dir_made = FALSE
    /\ tmp_file = ABSENT
    /\ out_file = ABSENT
    /\ fail_reason = "none"
    /\ memo = << >>
    /\ nc_lines = {}
    /\ rc_lines = {}
    /\ init_full = FALSE
    /\ lines_valid = FALSE
    /\ tools_run = FALSE
    /\ last = NoEval
    /\ trials = 0
    /\ run = 1
    /\ output1 = << >>

\* A run of diff_results.py on some result directories and manifest.
DiffInit ==
    /\ dr_pc = "d_start"
    /\ manifest_ids \in SUBSET RepoIds
    /\ tc_files \in SUBSET RepoIds
    /\ rc_files \in SUBSET RepoIds
    /\ DiffLocals
    /\ ReducerOff
    /\ TiersOff
    /\ ReadmeOff
    /\ CacheOff

\* main up to its loop: the manifest is loaded, the two directories are listed.
DiffStart ==
    /\ dr_pc = "d_start"
    /\ all_ids' = SortedSeq(tc_files \cup rc_files)
    /\ repo_idx' = 1
    /\ dr_pc' = "d_loop"
    /\ UNCHANGED << manifest_ids, tc_files, rc_files, repo_results, total_matches,
                    total_fp, total_fn, repos_perfect, repos_error, total_files,
                    total_files_dropped, warning_repos, err_repos_bound, output_json,
                    output_md, exit_status, in_both >>
    /\ UNCHANGED << reducer_vars, tiers_vars, readme_vars, cache_vars >>

\* One iteration of `for repo_id in all_ids`.
DiffRepo ==
    /\ dr_pc = "d_loop"
    /\ repo_idx <= Len(all_ids)
    /\ repo_idx' = repo_idx + 1
    /\ LET repo_id == all_ids[repo_idx]
       IN  IF repo_id \notin tc_files \/ repo_id \notin rc_files
           THEN /\ repo_results' = Append(repo_results,
                                          ErrorResult(repo_id, "missing_results"))
                /\ repos_error' = repos_error + 1
                /\ UNCHANGED << total_matches, total_fp, total_fn, repos_perfect,
                                total_files, total_files_dropped, warning_repos,
                                in_both >>
           ELSE \E tdoc \in NitrocopDocs, rdoc \in RubocopDocs :
                  LET tc == parse_nitrocop_json(tdoc)
                      rc == parse_rubocop_json(rdoc)
                  IN  IF ~tc.ok \/ ~rc.ok
                      THEN /\ repo_results' =
                                Append(repo_results,
                                       ErrorResult(repo_id,
                                                   IF ~tc.ok THEN "crashed_nitrocop"
                                                   ELSE "crashed_rubocop"))
                           /\ repos_error' = repos_error + 1
                           /\ UNCHANGED << total_matches, total_fp, total_fn,
                                           repos_perfect, total_files,
                                           total_files_dropped, warning_repos,
                                           in_both >>
                      ELSE LET tc_offenses ==
                                   IF rc.inspected_files # {}
                                   THEN tc.offenses \cap rc.inspected_files
                                   ELSE tc.offenses
                               n_matches == Cardinality(tc_offenses \cap rc.offenses)
                               n_fp == Cardinality(tc_offenses \ rc.offenses)
                               n_fn == Cardinality(rc.offenses \ tc_offenses)
                               files_dropped ==
                                   IF rc.target > rc.inspected /\ rc.inspected > 0
                                   THEN rc.target - rc.inspected ELSE 0
                           IN  /\ total_files' =
                                    total_files + Cardinality(rc.inspected_files)
                               /\ total_matches' = total_matches + n_matches
                               /\ total_fp' = total_fp + n_fp
                               /\ total_fn' = total_fn + n_fn
                               /\ repos_perfect' =
                                    IF n_fp = 0 /\ n_fn = 0 THEN repos_perfect + 1
                                    ELSE repos_perfect
                               /\ total_files_dropped' =
                                    total_files_dropped + files_dropped
                               /\ warning_repos' =
                                    IF files_dropped > 0
                                    THEN warning_repos \cup {repo_id}
                                    ELSE warning_repos
                               /\ repo_results' =
                                    Append(repo_results,
                                           [repo |-> repo_id, status |-> "ok",
                                            matches |-> n_matches, fp |-> n_fp,
                                            fn |-> n_fn])
                               /\ in_both' = in_both +
                                    Cardinality(tdoc.offenses \cap rdoc.offenses)
                               /\ UNCHANGED repos_error
    /\ UNCHANGED << dr_pc, manifest_ids, tc_files, rc_files, all_ids, err_repos_bound,
                    output_json, output_md, exit_status >>
    /\ UNCHANGED << reducer_vars, tiers_vars, readme_vars, cache_vars >>

\* After the loop: the summary is built and the JSON report is written.
DiffWriteJson ==
    /\ dr_pc = "d_loop"
    /\ repo_idx > Len(all_ids)
    /\ output_json' =
         [exists |-> TRUE,
          summary |->
              [total_repos |-> Len(all_ids),
               repos_perfect |-> repos_perfect,
               repos_error |-> repos_error,
               repos_with_rubocop_warnings |-> Cardinality(warning_repos),
               total_offenses_compared |-> total_matches + total_fn,
               matches |-> total_matches,
               fp |-> total_fp,
               fn |-> total_fn,
               total_files_inspected |-> total_files,
               rubocop_files_dropped |-> total_files_dropped]]
    /\ dr_pc' = "d_markdown"
    /\ UNCHANGED << manifest_ids, tc_files, rc_files, all_ids, repo_idx, repo_results,
                    total_matches, total_fp, total_fn, repos_perfect, repos_error,
                    total_files, total_files_dropped, warning_repos, err_repos_bound,
                    output_md, exit_status, in_both >>
    /\ UNCHANGED << reducer_vars, tiers_vars, readme_vars, cache_vars >>

\* The Markdown report and the exit.  `warn_and_err = warning_repos + err_repos`
\* reads the local err_repos, which main assigns only further down, in the
\* per-repo table: read while unassigned it raises UnboundLocalError, which
\* nothing catches, and the interpreter exits with status 1.
DiffMarkdown ==
    /\ dr_pc = "d_markdown"
    /\ IF ~err_repos_bound
       THEN /\ exit_status' = 1
            /\ UNCHANGED << err_repos_bound, output_md >>
       ELSE /\ err_repos_bound' = TRUE
            /\ output_md' = TRUE
            /\ exit_status' = 0
    /\ dr_pc' = "d_exited"
    /\ UNCHANGED << manifest_ids, tc_files, rc_files, all_ids, repo_idx, repo_results,
                    total_matches, total_fp, total_fn, repos_perfect, repos_error,
                    total_files, total_files_dropped, warning_repos, output_json,
                    in_both >>
    /\ UNCHANGED << reducer_vars, tiers_vars, readme_vars, cache_vars >>

DiffNext ==
    \/ DiffStart
    \/ DiffRepo
    \/ DiffWriteJson
    \/ DiffMarkdown

DiffSpec == DiffInit /\ [][DiffNext]_vars

----------------------------------------------------------------------------
(* bench/corpus/gen_tiers.py.                                              *)
(*                                                                         *)
(* by_cop is the list diff_results.py writes: one entry per cop, each with *)
(* its fp and fn counts.  The matches count is only printed and left out.  *)

Cops == 1..MaxCops

CopEntries == [cop : Cops, fp : 0..MaxCount, fn : 0..MaxCount]

\* The by_cop lists: entries of distinct cops, in any order.
ByCopLists ==
    UNION { { l \in [1..k -> CopEntries] :
                \A a, b \in 1..k : a # b => l[a].cop # l[b].cop } : k \in 0..MaxCops }

\* A cop is stable only with neither false positives nor false negatives.
IsStable_no_divergence(entry) == entry.fp = 0 /\ entry.fn = 0

\* `if fp == 0`
IsStable(entry) == entry.fp = 0

\* A run of gen_tiers.py on some corpus results, with or without --dry-run.
TiersInit ==
    /\ gt_pc = "g_loop"
    /\ by_cop \in ByCopLists
    /\ tiers_dry_run \in BOOLEAN
    /\ TiersLocals
    /\ ReducerOff
    /\ DiffOff
    /\ ReadmeOff
    /\ CacheOff

\* One iteration of `for entry in by_cop`.
TiersEntry ==
    /\ gt_pc = "g_loop"
    /\ entry_idx <= Len(by_cop)
    /\ LET entry == by_cop[entry_idx]
       IN  IF IsStable(entry)
           THEN /\ stable_cops' = Append(stable_cops, entry.cop)
                /\ UNCHANGED preview_cops
           ELSE /\ preview_cops' = Append(preview_cops, entry.cop)
                /\ UNCHANGED stable_cops
    /\ entry_idx' = entry_idx + 1
    /\ UNCHANGED << gt_pc, by_cop, tiers_dry_run, tiers_stdout, tiers_file >>
    /\ UNCHANGED << reducer_vars, diff_vars, readme_vars, cache_vars >>

\* After the loop: the tiers object is built, then printed or written.
TiersEmit ==
    /\ gt_pc = "g_loop"
    /\ entry_idx > Len(by_cop)
    /\ LET overrides ==
               [cop \in {stable_cops[k] : k \in DOMAIN stable_cops} |-> "stable"]
           tiers == [written |-> TRUE, default_tier |-> "preview",
                     overrides |-> overrides]
       IN  IF tiers_dry_run
           THEN /\ tiers_stdout' = tiers
                /\ UNCHANGED tiers_file
           ELSE /\ tiers_file' = tiers
                /\ UNCHANGED tiers_stdout
    /\ gt_pc' = "g_done"
    /\ UNCHANGED << by_cop, tiers_dry_run, entry_idx, stable_cops, preview_cops >>
    /\ UNCHANGED << reducer_vars, diff_vars, readme_vars, cache_vars >>

TiersNext ==
    \/ TiersEntry
    \/ TiersEmit

TiersSpec == TiersInit /\ [][TiersNext]_vars

----------------------------------------------------------------------------
(* bench/corpus/update_readme.py.                                          *)
(*                                                                         *)
(* A README text is modelled by the passages update_readme's patterns look *)
(* for, each absent (-1) or showing a number:                              *)
(*   rate     "**93.0% conformance**"             (tenths of a percent)    *)
(*   repos    "**500 open-source repos**"                                  *)
(*   files    " (163k Ruby files)" right after it (thousands)              *)
(*   overall  "**Overall: 93.0% match rate** across 5.0M offenses ..."     *)
(*   table    the top-15 table (which table it is)                         *)
(* The offense count of the overall line is left out.                      *)

Passage == {-1} \cup 0..MaxStat

ReadmeTexts ==
    [rate : Passage, repos : Passage, files : Passage, overall : Passage,
     table : Passage]

\* data["summary"] (overall_match_rate, total_repos, total_files_inspected) and
\* the table build_top15_table makes of data["by_repo"] and the manifest.
Summaries ==
    [rate : {0, RateUnit \div 2 - 1, RateUnit},
     repos : 0..MaxStat,
     files : {0, FilesUnit \div 2, FilesUnit},
     table : 0..MaxStat]

\* f"{n // 1000}k"
format_files(num) == num \div FilesUnit

\* f"{rate:.1%}"
format_match_rate(rate) == (2 * rate + RateUnit) \div (2 * RateUnit)

update_readme(text, summary) ==
    LET rate_str == format_match_rate(summary.rate)
        with_files == summary.files > 0
        both == text.repos # -1 /\ text.files # -1
    IN  [rate |-> IF text.rate # -1 THEN rate_str ELSE text.rate,
         repos |-> IF with_files
                   THEN IF both THEN summary.repos ELSE text.repos
                   ELSE IF text.repos # -1 THEN summary.repos ELSE text.repos,
         files |-> IF with_files /\ both THEN format_files(summary.files)
                   ELSE text.files,
         overall |-> IF text.overall # -1 THEN rate_str ELSE text.overall,
         table |-> IF text.table # -1 THEN summary.table ELSE text.table]

\* The README written whenever the text changed, --dry-run or not.
ShouldWrite_ignores_dry_run(dry_run, changed) == changed

\* Whether main reaches `args.readme.write_text(updated)`.
ShouldWrite(dry_run, changed) == changed /\ ~dry_run

\* A run of update_readme.py on some corpus results and README, with or
\* without --dry-run.
ReadmeInit ==
    /\ rm_pc = "r_start"
    /\ readme_file \in ReadmeTexts
    /\ readme_dry_run \in BOOLEAN
    /\ corpus_summary \in Summaries
    /\ readme_text = PlainReadme
    /\ updated = PlainReadme
    /\ readme_written = FALSE
    /\ ReducerOff
    /\ DiffOff
    /\ TiersOff
    /\ CacheOff

\* main reads its inputs and the README and computes the updated text.
ReadmeLoad ==
    /\ rm_pc = "r_start"
    /\ readme_text' = readme_file
    /\ updated' = update_readme(readme_file, corpus_summary)
    /\ rm_pc' = "r_loaded"
    /\ UNCHANGED << readme_file, readme_dry_run, corpus_summary, readme_written >>
    /\ UNCHANGED << reducer_vars, diff_vars, tiers_vars, cache_vars >>

\* main returns at once if nothing changed, prints the changes under --dry-run,
\* or writes the README.
ReadmeFinish ==
    /\ rm_pc = "r_loaded"
    /\ IF ShouldWrite(readme_dry_run, updated # readme_text)
       THEN /\ readme_file' = updated
            /\ readme_written' = TRUE
       ELSE UNCHANGED << readme_file, readme_written >>
    /\ rm_pc' = "r_done"
    /\ UNCHANGED << readme_dry_run, corpus_summary, readme_text, updated >>
    /\ UNCHANGED << reducer_vars, diff_vars, tiers_vars, cache_vars >>

ReadmeNext ==
    \/ ReadmeLoad
    \/ ReadmeFinish

ReadmeSpec == ReadmeInit /\ [][ReadmeNext]_vars

----------------------------------------------------------------------------
(* scripts/check-cop.py: the per-cop result cache.                         *)
(*                                                                         *)
(* The cache file is read and written whole by every call.  A build of the *)
(* binary happens later than the one before it, so its st_mtime_ns is      *)
(* larger; its size is any.  A per-repo result is modelled by one count.   *)

BinarySizes == {1, 2}

PerRepoResults == 0..MaxCount

\* f"{stat.st_mtime_ns}_{stat.st_size}"
binary_key(stat) == << stat.st_mtime_ns, stat.st_size >>

\* load_local_cache: the cache file's content ({} when there is no file).
load_local_cache(file) == file

\* The cache kept whole, the current binary's entry added if it has none.
PruneCache_keep_all(cache, bkey) ==
    IF bkey \in DOMAIN cache THEN cache ELSE (bkey :> << >>) @@ cache

\* `cache = {bkey: cache.get(bkey, {})}`
PruneCache(cache, bkey) ==
    (bkey :> IF bkey \in DOMAIN cache THEN cache[bkey] ELSE << >>)

\* The cache functions in use, with the binary first built and no cache file.
CacheInit ==
    /\ cc_pc = "on"
    /\ \E size \in BinarySizes :
         nitrocop_stat = [st_mtime_ns |-> 1, st_size |-> size]
    /\ cache_file = << >>
    /\ lookup = NoLookup
    /\ saved = << >>
    /\ ReducerOff
    /\ DiffOff
    /\ TiersOff
    /\ ReadmeOff

\* cargo build --release replaces the binary.
CacheRebuild ==
    /\ cc_pc = "on"
    /\ nitrocop_stat.st_mtime_ns < MaxBuilds
    /\ \E size \in BinarySizes :
         nitrocop_stat' = [st_mtime_ns |-> nitrocop_stat.st_mtime_ns + 1,
                           st_size |-> size]
    /\ saved' = << >>
    /\ UNCHANGED << cc_pc, cache_file, lookup >>
    /\ UNCHANGED << reducer_vars, diff_vars, tiers_vars, readme_vars >>

\* save_cached_results(cop_name, per_repo)
CacheSave ==
    /\ cc_pc = "on"
    /\ \E cop_name \in Cops, per_repo \in PerRepoResults :
         LET bkey == binary_key(nitrocop_stat)
             cache == PruneCache(load_local_cache(cache_file), bkey)
         IN  /\ cache_file' = (bkey :> ((cop_name :> per_repo) @@ cache[bkey]))
                                  @@ cache
             /\ saved' = (cop_name :> per_repo) @@ saved
    /\ UNCHANGED << cc_pc, nitrocop_stat, lookup >>
    /\ UNCHANGED << reducer_vars, diff_vars, tiers_vars, readme_vars >>

\* get_cached_results(cop_name)
CacheGet ==
    /\ cc_pc = "on"
    /\ \E cop_name \in Cops :
         LET cache == load_local_cache(cache_file)
             bkey == binary_key(nitrocop_stat)
         IN  lookup' =
               IF bkey \in DOMAIN cache /\ cop_name \in DOMAIN cache[bkey]
               THEN [cop |-> cop_name, found |-> TRUE,
                     result |-> cache[bkey][cop_name]]
               ELSE [cop |-> cop_name, found |-> FALSE, result |-> 0]
    /\ UNCHANGED << cc_pc, nitrocop_stat, cache_file, saved >>
    /\ UNCHANGED << reducer_vars, diff_vars, tiers_vars, readme_vars >>

CacheNext ==
    \/ CacheRebuild
    \/ CacheSave
    \/ CacheGet

CacheSpec == CacheInit /\ [][CacheNext]_vars

----------------------------------------------------------------------------
(* Claims.                                                                 *)

\* C1 (as claimed): with deterministic oracles, if the full divergence predicate
\* holds on a non-empty unmodified input, it also holds on the lines the two
\* phases return.
C1_InterestingnessPreserved ==
    (env = "det" /\ run = 1 /\ pc = "done" /\ original_count > 0 /\ init_full)
        => memo[write_candidate(lines)].full

\* The texts obtained from ls by deleting exactly one line, the empty text excluded.
SingleDeletions(ls) ==
    { write_candidate(RemoveLine(ls, k)) : k \in 0..(Len(ls) - 1) } \ { << >> }

\* C2 (as claimed): with a deterministic predicate the output is 1-minimal: when
\* the predicate is evaluated again on the output with one line deleted, it is
\* false.
C2_OneMinimal ==
    (run = 2 /\ last.phase # 0 /\ last.text \in SingleDeletions(output1))
        => ~last.result

\* C3 (as claimed): a second run of the two phases on the first run's output,
\* with the same deterministic predicate, returns that output unchanged.
C3_Idempotent ==
    (run = 2 /\ pc = "done") => lines = output1

\* A checker call that timed out, exited with an unexpected status or printed
\* output that is not JSON.
Broken(res) == res.kind \in {"timeout", "badexit", "garbage"}

\* C4 (as claimed): an evaluation of is_interesting in which the subject or the
\* reference call failed returns false, for both mismatch kinds.
C4_FailureNeverInteresting ==
    (last.phase # 0 /\ (Broken(last.nc) \/ Broken(last.rc))) => ~last.result

\* main has run its initial verification.
Verified == pc \notin {"start", "verify"} /\ fail_reason \notin {"no_binary", "no_source"}

\* The report that makes the mismatch (fp: the subject's, fn: the reference's)
\* is empty on the unmodified input.
ExpectedReportEmpty ==
    IF mismatch_type = "fp" THEN nc_lines = {} ELSE rc_lines = {}

TextLines(text) == SelectSeq(text, LAMBDA t : t # NL)

C7_Terminates ==
    /\ <>(pc \in {"done", "failed"})
    /\ [](pc \in {"p2_while", "emit"} => n > Len(lines))
    /\ [][(pc = "p2_while" /\ pc' = "p2_while") => i' = i - 1]_vars

\* C7 witness: a completed session that made trials, doubled n and deleted lines.
C7_Witness ==
    /\ pc = "done"
    /\ trials > 0
    /\ n > 2
    /\ Len(lines) < original_count

\* C8: for a non-empty source, once loaded, lines has between 1 and
\* original_count lines in every state and never grows in a step.
C8_MonotonicSize ==
    /\ []((pc # "start" /\ original_count > 0) =>
             (1 <= Len(lines) /\ Len(lines) <= original_count))
    /\ [][(pc # "start" /\ original_count > 0) => Len(lines') <= Len(lines)]_vars

\* C8 witness: a source of MaxLines lines reduced to a single line.
C8_Witness ==
    /\ pc = "done"
    /\ original_count = MaxLines
    /\ Len(lines) = 1

\* C9: a step changes the call counter by one if it evaluates is_interesting
\* (whatever the outcome) and leaves it alone otherwise.
C9_CallAccounting ==
    [][ /\ trials' # trials => predicate_calls' = predicate_calls + 1
        /\ trials' = trials => predicate_calls' = predicate_calls ]_vars

\* C9 witness: the third evaluation ended at the parse check and was counted.
C9_Witness ==
    /\ last.phase # 0
    /\ ~is_parseable(last.parse)
    /\ predicate_calls = 3

C11_InvalidCandidateShortCircuits ==
    [][ (trials' = trials + 1 /\ ~is_parseable(last'.parse)) =>
            /\ ~last'.result
            /\ last'.nc = UNRUN
            /\ last'.rc = UNRUN
            /\ predicate_calls' = predicate_calls + 1
            /\ lines' = lines ]_vars

\* C11 witness: a Phase 2 trial stopped at a parse check that timed out, while
\* the subject would have reported on the original.
C11_Witness ==
    /\ last.phase = 2
    /\ last.parse = "timeout"
    /\ last.nc = UNRUN
    /\ ~last.result
    /\ predicate_calls = trials
    /\ nc_lines # {}

\* C12: with skip_rubocop off, is_interesting on a parseable candidate returns
\* true exactly when the two reports make the divergence: fp, nitrocop reports
\* and rubocop does not; fn, nitrocop does not report and rubocop does.
C12_PredicateMatchesReports ==
    (last.phase # 0 /\ ~skip_rubocop /\ is_parseable(last.parse)) =>
        (last.result <=> last.full)

\* C12 witness: a false-negative candidate accepted after both checkers ran,
\* nitrocop silent and rubocop reporting.
C12_Witness ==
    /\ last.phase # 0
    /\ ~skip_rubocop
    /\ mismatch_type = "fn"
    /\ is_parseable(last.parse)
    /\ last.result
    /\ run_nitrocop(last.nc) = {}
    /\ run_rubocop(last.rc) # {}

\* C13 (as claimed): the reference call is skipped only on an explicit request
\* of the session's configuration.  main's arguments (cop, repo_id, location,
\* --type, --verbose) hold no such request, so in every fp evaluation of a
\* parseable candidate on which nitrocop reports, rubocop is run.
C13_ReferenceConsultedByDefault ==
    ( /\ last.phase # 0
      /\ mismatch_type = "fp"
      /\ is_parseable(last.parse)
      /\ run_nitrocop(last.nc) # {} ) => last.rc # UNRUN

\* C14: skip_rubocop is true only for a false positive whose original file
\* rubocop reported nothing on; once main has set it, before Phase 1, no step
\* changes it, and every evaluation of the two phases runs with that value (in
\* an fp evaluation that reaches the rubocop decision, rubocop is left out
\* exactly when the flag is set).
C14_SkipFlagFixed ==
    /\ [](skip_rubocop => (mismatch_type = "fp" /\ rc_lines = {}))
    /\ [][pc \notin {"start", "verify"} => skip_rubocop' = skip_rubocop]_vars
    /\ []( ( /\ last.phase # 0
             /\ mismatch_type = "fp"
             /\ is_parseable(last.parse)
             /\ run_nitrocop(last.nc) # {} ) => (last.rc = UNRUN <=> skip_rubocop) )

\* C14 witness: a session that ran with the flag set through trials of both
\* phases and completed.
C14_Witness ==
    /\ pc = "done"
    /\ skip_rubocop
    /\ last.phase = 2
    /\ trials >= 3
    /\ rc_lines = {}

\* C15: false positive, rubocop never reports, every candidate parses, and
\* nitrocop reports exactly when two given lines are both present: the reducer
\* returns and writes exactly those two lines, in their original order.
C15_ScenarioOutput ==
    (env = "pair" /\ pc = "done") =>
        /\ Len(lines) = 2
        /\ {lines[1], lines[2]} = need
        /\ lines[1] < lines[2]
        /\ out_file.exists
        /\ TextLines(out_file.text) = lines

\* C15 witness: scenario A itself, lines 3 and 7 of a 10-line file.
C15_Witness ==
    /\ env = "pair"
    /\ pc = "done"
    /\ original_count = 10
    /\ need = {3, 7}
    /\ lines = << 3, 7 >>
    /\ trials > 0

\* A session on a one-line file that passed main's initial verification.
SingleLineSession ==
    /\ original_count = 1
    /\ pc \notin {"start", "verify", "failed"}

\* C16: on a single-line file that reproduces the mismatch neither phase tests
\* or deletes anything (no trial, no is_interesting call, the working file still
\* the input), and the session goes on to complete normally with the input as
\* its output.
C16_SingleLineUntouched ==
    /\ [](SingleLineSession =>
            /\ trials = 0
            /\ predicate_calls = 0
            /\ last = NoEval
            /\ lines = source_lines
            /\ TextLines(tmp_file.text) = source_lines
            /\ fail_reason = "none")
    /\ SingleLineSession ~>
            ( /\ pc = "done"
              /\ fail_reason = "none"
              /\ out_file.exists
              /\ TextLines(out_file.text) = source_lines )

\* C16 witness: a one-line false negative that truly reproduces, completed.
C16_Witness ==
    /\ SingleLineSession
    /\ pc = "done"
    /\ mismatch_type = "fn"
    /\ init_full
    /\ Len(out_file.text) = 2

C18_MissingBinaryFailsFirst ==
    (~bin_exists /\ pc # "start") =>
        /\ pc = "failed"
        /\ fail_reason = "no_binary"
        /\ ~dir_made
        /\ ~tmp_file.exists
        /\ ~out_file.exists
        /\ ~tools_run
        /\ last = NoEval
        /\ predicate_calls = 0
        /\ lines = << >>

\* C18 witness: the binary is missing although the source file is there.
C18_Witness ==
    /\ pc = "failed"
    /\ ~bin_exists
    /\ source_exists
    /\ Len(source_lines) > 0
    /\ fail_reason = "no_binary"

\* C19: at completion the output file and the working file both hold exactly
\* the final lines, one per line; the working file no longer holds the candidate
\* of a trial rejected after the last adoption.
C19_FinalFilesHoldResult ==
    pc = "done" =>
        /\ out_file.exists
        /\ tmp_file.exists
        /\ TextLines(out_file.text) = lines
        /\ Len(out_file.text) = 2 * Len(lines)
        /\ tmp_file.text = out_file.text
        /\ (last.phase # 0 /\ ~last.result) => tmp_file.text # last.text

\* C19 witness: completion after an adopted deletion followed by a rejected
\* last trial.
C19_Witness ==
    /\ pc = "done"
    /\ run = 1
    /\ last.phase = 2
    /\ ~last.result
    /\ Len(lines) < original_count
    /\ Len(lines) >= 2

\* C20 (as claimed): diff_results.py runs to completion on any result
\* directories and manifest: it exits with status 0 having written the JSON and
\* the Markdown report, and the JSON summary counts every repo id with results,
\* counts in repos_error each repo that lacks one tool's JSON, and counts in
\* matches the offenses both tools report.
C20_DiffCompletes ==
    dr_pc = "d_exited" =>
        /\ exit_status = 0
        /\ output_json.exists
        /\ output_md
        /\ output_json.summary.total_repos = Cardinality(tc_files \cup rc_files)
        /\ output_json.summary.repos_error >=
               Cardinality((tc_files \cup rc_files) \ (tc_files \cap rc_files))
        /\ output_json.summary.matches = in_both

\* The tiers object a finished run of gen_tiers.py produced.
GeneratedTiers == IF tiers_dry_run THEN tiers_stdout ELSE tiers_file

\* C21: the tiers object gen_tiers.py generates has default_tier "preview", and
\* a cop of by_cop is in overrides, with value "stable", exactly when its fp
\* count is 0, whatever its fn count; overrides holds nothing else.
C21_StableIffNoFalsePositive ==
    gt_pc = "g_done" =>
        /\ GeneratedTiers.written
        /\ GeneratedTiers.default_tier = "preview"
        /\ \A k \in DOMAIN by_cop :
              by_cop[k].fp = 0 <=>
                  /\ by_cop[k].cop \in DOMAIN GeneratedTiers.overrides
                  /\ GeneratedTiers.overrides[by_cop[k].cop] = "stable"
        /\ \A cop \in DOMAIN GeneratedTiers.overrides :
              \E k \in DOMAIN by_cop : by_cop[k].cop = cop

\* C21 witness: a cop with false negatives but no false positive made stable,
\* next to a cop with a false positive left out of overrides.
C21_Witness ==
    /\ gt_pc = "g_done"
    /\ Len(by_cop) = 2
    /\ \E k \in DOMAIN by_cop :
         /\ by_cop[k].fp = 0
         /\ by_cop[k].fn > 0
         /\ by_cop[k].cop \in DOMAIN GeneratedTiers.overrides
    /\ \E k \in DOMAIN by_cop :
         /\ by_cop[k].fp > 0
         /\ by_cop[k].cop \notin DOMAIN GeneratedTiers.overrides

\* C22: with --dry-run no step of update_readme.py changes or writes the
\* README; the README is written only without --dry-run and when the computed
\* text differs from the text read, and what is written is the computed text.
C22_DryRunLeavesReadme ==
    [][ /\ readme_dry_run =>
              (readme_file' = readme_file /\ readme_written' = readme_written)
        /\ readme_file' # readme_file => readme_written'
        /\ readme_written' # readme_written =>
              /\ ~readme_dry_run
              /\ updated # readme_text
              /\ readme_file' = updated ]_vars

\* C22 witness: a finished dry run whose computed text differed from the
\* README, which nevertheless still holds the text read.
C22_Witness ==
    /\ rm_pc = "r_done"
    /\ readme_dry_run
    /\ updated # readme_text
    /\ ~readme_written
    /\ readme_file = readme_text

\* C23: get_cached_results returns a result only if that result is the one last
\* saved for the cop since the current binary was built, never one saved under
\* an earlier binary key; and once a result has been saved under the current
\* binary the cache holds the current key alone, with every cop saved under it.
C23_CacheFollowsBinary ==
    /\ [][ (lookup' # lookup /\ lookup'.found) =>
              /\ lookup'.cop \in DOMAIN saved
              /\ lookup'.result = saved[lookup'.cop] ]_vars
    /\ [](saved # << >> =>
              /\ DOMAIN cache_file = {binary_key(nitrocop_stat)}
              /\ cache_file[binary_key(nitrocop_stat)] = saved)
    /\ [](Cardinality(DOMAIN cache_file) <= 1)

\* C23 witness: after a rebuild and a new save of one cop, the other cop, saved
\* only under the earlier binary, is looked up and not found.
C23_Witness ==
    /\ nitrocop_stat.st_mtime_ns = 2
    /\ DOMAIN saved = {1}
    /\ lookup.cop = 2
    /\ ~lookup.found
    /\ DOMAIN cache_file = {binary_key(nitrocop_stat)}

\* C24 as claimed: Phase 1 returns a file of two or more lines only after a
\* complete scan without success in which every chunk was exactly one line, that
\* is a scan with as many chunks as lines (n has since been doubled).
C24_ExitAfterSingleLineScan ==
    [][ (pc = "p1_while" /\ pc' = "p2_while" /\ Len(lines) >= 2) =>
          /\ ~reduced
          /\ chunk_size = 1
          /\ n = 2 * Len(lines) ]_vars

\* C24 as the code has it: Phase 1 returns exactly when the while test finds n
\* above the line count; when the file then has two or more lines, the scan
\* before was complete and without success, it had n/2 chunks with chunk_size 1,
\* and its last chunk held the Len(lines) - n/2 + 1 lines the others left.
C24_ExitAfterUnitGranularityScan ==
    [][ pc = "p1_while" =>
          /\ (pc' = "p2_while") <=> (n > Len(lines))
          /\ (pc' = "p2_while" /\ Len(lines) >= 2) =>
                /\ ~reduced
                /\ chunk_size = 1
                /\ n % 2 = 0
                /\ n \div 2 <= Len(lines)
                /\ trials >= n \div 2 ]_vars

\* C24 witness: Phase 1 has returned three lines after one scan of two chunks,
\* the first of one line and the second of two.
C24_Witness ==
    /\ pc = "p2_while"
    /\ i = Len(lines) - 1
    /\ Len(lines) = 3
    /\ original_count = 3
    /\ n = 4
    /\ chunk_size = 1
    /\ ~reduced
    /\ trials = 2

\* C25: within a Phase 1 scan the chunk index goes up by one from trial to
\* trial with lines and n as they were; the first accepted trial makes its
\* candidate the current lines, sets n to max(2, n - 1) and leaves the for loop;
\* and the trial that follows an accepted Phase 1 trial removes chunk 0 of a
\* partition computed from the new lines and the new n.
C25_SuccessRestartsScan ==
    /\ [][ (pc = "p1_for" /\ pc' = "p1_for") =>
              (i' = i + 1 /\ lines' = lines /\ n' = n /\ chunk_size' = chunk_size) ]_vars
    /\ [][ (pc = "p1_for" /\ trials' = trials + 1 /\ last'.result) =>
              /\ lines' = Slice(lines, 0, i * chunk_size)
                             \o Slice(lines, IF i < n - 1 THEN (i + 1) * chunk_size
                                                         ELSE Len(lines), Len(lines))
              /\ write_candidate(lines') = last'.text
              /\ n' = (IF n - 1 > 2 THEN n - 1 ELSE 2)
              /\ pc' = "p1_after" ]_vars
    /\ [][ (last.phase = 1 /\ last.result /\ trials' = trials + 1) =>
              /\ pc = "p1_for"
              /\ i = 0
              /\ chunk_size = Max(1, Len(lines) \div n)
              /\ TextLines(last.text) = lines
              /\ TextLines(last'.text) = Slice(lines, chunk_size, Len(lines)) ]_vars

\* C25 witness: the first chunk of a four-chunk scan of five lines has just been
\* removed, so n is three and the for loop has been left with chunks untried.
C25_Witness ==
    /\ pc = "p1_after"
    /\ last.phase = 1
    /\ last.result
    /\ reduced
    /\ original_count = 5
    /\ Len(lines) = 4
    /\ i = 0
    /\ n = 3

\* C26: during every Phase 1 scan 2 <= n <= len(lines), chunk_size is
\* floor(len/n), and the n index ranges [start, end) of the scan are non-empty,
\* follow one another from 0 to len(lines) without gap or overlap, so that every
\* line index lies in exactly one of them; each range but the last has
\* floor(len/n) indices and the last has the len - (n - 1) * floor(len/n) left.
C26_ChunksPartitionLines ==
    pc = "p1_for" =>
       LET len == Len(lines)
           start(k) == ChunkStart(k, chunk_size)
           end(k) == ChunkEnd(k, n, chunk_size, len)
       IN  /\ 2 <= n
           /\ n <= len
           /\ chunk_size = len \div n
           /\ start(0) = 0
           /\ end(n - 1) = len
           /\ \A k \in 0..(n - 1) : start(k) < end(k)
           /\ \A k \in 0..(n - 2) : end(k) = start(k + 1) /\ end(k) - start(k) = len \div n
           /\ end(n - 1) - start(n - 1) = len - (n - 1) * (len \div n)
           /\ \A x \in 0..(len - 1) :
                 Cardinality({k \in 0..(n - 1) : start(k) <= x /\ x < end(k)}) = 1

\* C26 witness: the scan of five lines in four chunks is at its last chunk,
\* which holds two lines.
C26_Witness ==
    /\ pc = "p1_for"
    /\ Len(lines) = 5
    /\ n = 4
    /\ i = 3
    /\ ChunkEnd(i, n, chunk_size, Len(lines)) - ChunkStart(i, chunk_size) = 2

\* C27: Phase 2 starts at the last index and, once started, is never left for
\* Phase 1; every iteration lowers the index by one, leaves the lines before the
\* target as they were and the lines after it in place, without the target when
\* its deletion was accepted, so that the next target is the line that stood
\* just before this one and no line at or after a tried position is a target
\* again.
C27_SinglePassDescending ==
    /\ [][ (pc # "p2_while" /\ pc' = "p2_while") => i' = Len(lines') - 1 ]_vars
    /\ [][ pc = "p2_while" => pc' \in {"p2_while", "emit"} ]_vars
    /\ [][ (pc = "p2_while" /\ pc' = "p2_while") =>
              /\ i' = i - 1
              /\ i < Len(lines)
              /\ SubSeq(lines', 1, i) = SubSeq(lines, 1, i)
              /\ \/ /\ trials' = trials + 1
                    /\ last'.result
                    /\ Len(lines') = Len(lines) - 1
                    /\ SubSeq(lines', i + 1, Len(lines')) = SubSeq(lines, i + 2, Len(lines))
                 \/ /\ ~(trials' = trials + 1 /\ last'.result)
                    /\ lines' = lines ]_vars

\* C27 witness: Phase 2 has just deleted the line at index 2 of four lines and
\* stands at index 1 of the three that are left.
C27_Witness ==
    /\ pc = "p2_while"
    /\ last.phase = 2
    /\ last.result
    /\ TextLines(last.text) = lines
    /\ Len(lines) = 3
    /\ i = 1

\* C28: a trial that is rejected raises the call counter by one, leaves its
\* candidate in the working file and moves the loop index on; the current
\* lines, n, chunk_size, the reduced flag, the phase and the output file stay as
\* they were.  In Phase 1 n changes only on an accepted trial or, doubled, after
\* a scan that went through all n chunks without success.
C28_RejectedTrialFrame ==
    /\ [][ (trials' = trials + 1 /\ ~last'.result) =>
              /\ lines' = lines
              /\ n' = n
              /\ chunk_size' = chunk_size
              /\ reduced' = reduced
              /\ pc' = pc
              /\ out_file' = out_file
              /\ skip_rubocop' = skip_rubocop
              /\ predicate_calls' = predicate_calls + 1
              /\ tmp_file' = [exists |-> TRUE, text |-> last'.text]
              /\ i' = (IF pc = "p1_for" THEN i + 1 ELSE i - 1) ]_vars
    /\ [][ (pc \in {"p1_while", "p1_for", "p1_after", "p2_while"} /\ n' # n) =>
              \/ pc = "p1_for" /\ trials' = trials + 1 /\ last'.result
              \/ pc = "p1_after" /\ ~reduced /\ i >= n /\ n' = 2 * n ]_vars

\* C28 witness: Phase 2 has just had a deletion rejected after an earlier one
\* was adopted; the working file holds the rejected candidate, one line shorter
\* than the current lines.
C28_Witness ==
    /\ pc = "p2_while"
    /\ last.phase = 2
    /\ ~last.result
    /\ tmp_file.text = last.text
    /\ Len(TextLines(last.text)) = Len(lines) - 1
    /\ Len(lines) < original_count
    /\ predicate_calls = trials

\* C29: no candidate that is_interesting was called on in Phase 1 or Phase 2 is
\* empty; an iteration whose deletion would remove every line (the chunk is the
\* whole file, or the file has one line) makes no trial and leaves the call
\* counter, the working file, the record of the last call and the lines alone.
C29_EmptyNeverTested ==
    /\ [](last.phase # 0 => (last.text # << >> /\ TextLines(last.text) # << >>))
    /\ [][ (trials' = trials + 1) => TextLines(last'.text) # << >> ]_vars
    /\ [][ ( \/ /\ pc = "p1_for"
                 /\ i < n
                 /\ i * chunk_size = 0
                 /\ (IF i < n - 1 THEN (i + 1) * chunk_size ELSE Len(lines)) >= Len(lines)
              \/ /\ pc = "p2_while"
                 /\ i = 0
                 /\ Len(lines) = 1 ) =>
              /\ trials' = trials
              /\ predicate_calls' = predicate_calls
              /\ last' = last
              /\ tmp_file' = tmp_file
              /\ lines' = lines ]_vars

\* C29 witness: of two lines Phase 1 removed one, and Phase 2 has passed over
\* the line that is left without a call.
C29_Witness ==
    /\ pc = "p2_while"
    /\ i = -1
    /\ original_count = 2
    /\ Len(lines) = 1
    /\ last.phase = 1
    /\ last.result
    /\ trials = 1

\* a can be obtained from b by deleting elements.
RECURSIVE IsSubsequence(_, _)
IsSubsequence(a, b) ==
    IF a = << >> THEN TRUE
    ELSE IF b = << >> THEN FALSE
    ELSE IF Head(a) = Head(b) THEN IsSubsequence(Tail(a), Tail(b))
    ELSE IsSubsequence(a, Tail(b))

\* C30: the current lines and every candidate is_interesting was called on are
\* subsequences of the input; a Phase 1 candidate is the current lines without
\* the index range of chunk i, a Phase 2 candidate is the current lines without
\* the line at index i, and the current lines change only to a candidate just
\* accepted.
C30_OnlyDeletions ==
    /\ [](IsSubsequence(lines, source_lines))
    /\ [](last.phase # 0 => IsSubsequence(TextLines(last.text), source_lines))
    /\ [][ (pc = "p1_for" /\ trials' = trials + 1) =>
              \E a \in 0..Len(lines) : \E b \in (a + 1)..Len(lines) :
                 /\ a = i * chunk_size
                 /\ TextLines(last'.text) = SubSeq(lines, 1, a) \o SubSeq(lines, b + 1, Len(lines))
                 /\ Len(TextLines(last'.text)) = Len(lines) - (b - a) ]_vars
    /\ [][ (pc = "p2_while" /\ trials' = trials + 1) =>
              /\ i + 1 \in 1..Len(lines)
              /\ TextLines(last'.text) = SubSeq(lines, 1, i) \o SubSeq(lines, i + 2, Len(lines))
              /\ Len(TextLines(last'.text)) = Len(lines) - 1 ]_vars
    /\ [][ (pc \in {"p1_while", "p1_for", "p1_after", "p2_while", "emit"} /\ lines' # lines) =>
              /\ trials' = trials + 1
              /\ last'.result
              /\ lines' = TextLines(last'.text) ]_vars

\* C30 witness: in a scan of four lines in four chunks the candidate without
\* the second line has just been tested.
C30_Witness ==
    /\ pc = "p1_for"
    /\ last.phase = 1
    /\ ~last.result
    /\ n = 4
    /\ i = 2
    /\ Len(lines) = 4
    /\ TextLines(last.text) = << lines[1], lines[3], lines[4] >>
    /\ IsSubsequence(TextLines(last.text), source_lines)

====
